---------------------------- MODULE Spec2Model ----------------------------
(***************************************************************************)
(* State-machine model of pngview (src/pngview/pngview.c): the run loop of *)
(* main(), the asynchronous signal handler, and the environment the loop   *)
(* observes (the file at imagePath, the keyboard).                         *)
(*                                                                         *)
(* One loop iteration ("tick") is split at the points where a signal can   *)
(* make a difference:                                                      *)
(*   top     : while (run)                                   line 300      *)
(*   monitor : optional file-change check                    lines 305-312 *)
(*   reload  : if (reload) { reload = false; ...             lines 314-316 *)
(*   load    : loadPng and its two outcomes                  lines 319-326 *)
(*   key     : keyboard poll, edits, move transaction        lines 330-410 *)
(*   sleep   : usleep, time advance, timeout check           lines 414-419 *)
(*   done    : the loop has been left                        line 420      *)
(***************************************************************************)
EXTENDS Integers, Sequences, FiniteSets, TLC

(***************************************************************************)
(* Exploration bounds.                                                     *)
(***************************************************************************)
\* loop time (ms) up to which ticks are explored in the reload scenario
MaxTime == 30
\* loop time (ms) up to which ticks are explored in the timeout scenario
MaxTimeoutTime == 50
\* loop time (ms) up to which ticks are explored in the monitoring scenario
MaxMonTime == 1010
\* key presses consumed in the keyboard scenario
MaxKeys == 4
\* key presses consumed in the other scenarios
MaxKeysMain == 1
\* loop time (ms) explored in the scenario from startup to exit
MaxLifeTime == 20
\* loop time (ms) explored in the scenario with two file checks
MaxMon2Time == 2010
\* ticks explored in the scenario that starts just before currentTime wraps
MaxWrapTicks == 4
\* ticks explored in the scenario that starts just before the first file check
MaxMirrorTicks == 3
\* key presses consumed in that scenario
MaxMirrorKeys == 2

(***************************************************************************)
(* Program constants.                                                      *)
(***************************************************************************)
sleepMilliseconds == 10
MonitorPeriod == 1000
\* a uint32_t is held as <<high half, low half>>, each half in 0..HalfWord-1
HalfWord == 65536
KeyEsc == 27
KeyPlus == 43
KeyMinus == 45
KeyA == 97
KeyD == 100
KeyS == 115
KeyW == 119
KeyUpperA == 65
KeyOther == 120
NoKey == 0
StdinImage == 0

Signals == {"SIGTSTP", "SIGINT", "SIGTERM"}
TimeoutsMs == {0, 25, 50}
\* -t values of the scenario from startup to exit
LifeTimeoutsMs == {0, 20}
\* -t values that atoi returns negative: timeout = atoi(optarg) stores them
\* in the uint32_t as 2^32 - 16, 2^32 - 5 and 2^32 - 1
WrapTimeoutArgs == {-16, -5, -1}
InitOffsets == {<<3, -2>>}
\* vc_dispmanx_display_get_info: the display modes, one smaller than the images
DefaultMode == [width |-> 1920, height |-> 1080]
DisplayModes == {DefaultMode, [width |-> 32, height |-> 20]}
Keys == {KeyEsc, KeyA, KeyD, KeyW, KeyS, KeyPlus, KeyMinus, KeyUpperA, KeyOther}
ModTimes == {1, 2}
Contents == {1, 2}

VARIABLES
    scenario,         \* which exploration limits apply (fixed at Init)
    timeout,          \* uint32_t timeout            (-t, line 115/161)
    interactive,      \* bool interactive            (-n, line 118/166)
    monitorChanges,   \* bool monitorChanges         (-m, line 119/171)
    imagePath,        \* argv[optind], "-" is standard input (line 192)
    xOffsetSet,       \* bool xOffsetSet             (-x, line 116/150)
    yOffsetSet,       \* bool yOffsetSet             (-y, line 117/156)
    info,             \* DISPMANX_MODEINFO_T info    (line 248)
    run,              \* volatile bool run           (line 56)
    reload,           \* volatile bool reload        (line 57)
    xOffset, yOffset, \* int32_t xOffset, yOffset    (lines 113-114)
    step,             \* int32_t step                (line 293)
    currentTime,      \* uint32_t currentTime        (line 294)
    lastModCheckTime, \* uint32_t lastModCheckTime   (line 295)
    lastFileMod,      \* time_t lastFileMod          (line 120)
    pc,               \* position of main() in the loop
    shown,            \* content the compositor displays for the image layer
    layerPos,         \* position the compositor holds for the image layer
    imageLayer,       \* which compositor objects of the image layer exist
    image,            \* imageLayer.image: the last successfully decoded image
    destroyed,        \* calls of destroyImageLayer so far
    exitStatus,       \* "running", "0" (return 0) or "abort" (failed assert)
    file,             \* environment: the file at imagePath
    keysUsed,         \* key presses consumed so far
    iter,             \* history: loop iterations begun
    start,            \* history: <<xOffset, yOffset>> at loop start
    stopSig,          \* history: a SIGINT/SIGTERM has been delivered
    stopPc,           \* history: pc at the first SIGINT/SIGTERM ("none" before)
    stopIter,         \* history: iter at the first SIGINT/SIGTERM
    quitKey,          \* history: the quit key has been processed
    tick,             \* history of the current tick: tx, reloaded, moved, tried
    lateDecodes,      \* history: decode attempts started after a stop signal
    lateIter,         \* history: iter of the last such attempt
    stale,            \* history: 0 none owed, 1 a decode failed, 2 a reload
                      \*   check passed with the file readable and no attempt
    moved,            \* history: <<sum of x moves, sum of y moves>>
    ladderLog,        \* history: +/- keys processed, with the step before/after
    txFailed          \* history: an update transaction has failed

config == <<scenario, timeout, interactive, monitorChanges, imagePath,
            xOffsetSet, yOffsetSet, info>>
prog == <<run, reload, xOffset, yOffset, step, currentTime, lastModCheckTime,
          lastFileMod, pc>>
layer == <<shown, layerPos>>
session == <<imageLayer, image, destroyed, exitStatus, txFailed>>
hist == <<iter, start, stopSig, stopPc, stopIter, quitKey, tick, lateDecodes,
          lateIter, stale, moved, ladderLog>>
vars == <<config, prog, layer, session, file, keysUsed, hist>>

(***************************************************************************)
(* The file at imagePath, as stat() and loadPng() see it.                  *)
(***************************************************************************)
Missing == [exists |-> FALSE, valid |-> FALSE, content |-> 0, mtime |-> 0]
FileStates ==
    {Missing}
    \cup {[exists |-> TRUE, valid |-> FALSE, content |-> 0, mtime |-> m] :
             m \in ModTimes}
    \cup {[exists |-> TRUE, valid |-> TRUE, content |-> c, mtime |-> m] :
             c \in Contents, m \in ModTimes}

\* loadPng(&image, imagePath): TRUE iff the file can be opened and decoded
LoadPng(f) == f.exists /\ f.valid

\* getFileModificationTime: the values the call can return.  The result of
\* stat() is not looked at; when it fails attr is uninitialized and the
\* returned st_mtime is an indeterminate value.
getFileModificationTime(f) ==
    IF f.exists THEN {f.mtime} ELSE {0} \cup ModTimes

\* line 194: strcmp(imagePath, "-") == 0 selects stdin at startup
StartFromPath(p) == p # "-"

\* variant: the reload is not guarded by the source
ReloadFromAnySource(p) == TRUE

\* line 316: strcmp(imagePath, "-") != 0 guards the reload
ReloadFromPath(p) == p # "-"

\* variant: the loop goes on whatever run is
LoopRunsAlways(r) == TRUE

\* line 300: while (run)
LoopRuns(r) == r

\* variant: the flag is not cleared
ReloadKept(rl) == rl

\* line 315: reload = false, the value the flag has after the reload check
ReloadAfterCheck(rl) == FALSE

(***************************************************************************)
(* uint32_t arithmetic (timeout, currentTime, lastModCheckTime).           *)
(***************************************************************************)
\* the uint32_t with value n, for 0 <= n < 2^31
U32(n) == <<n \div HalfWord, n % HalfWord>>

\* the value of a, for a below 2^31
U32Val(a) == a[1] * HalfWord + a[2]

\* a + n modulo 2^32, for 0 <= n < HalfWord
U32Add(a, n) ==
    LET s == a[2] + n
    IN  IF s < HalfWord THEN <<a[1], s>>
        ELSE <<(a[1] + 1) % HalfWord, s - HalfWord>>

\* a - b modulo 2^32
U32Sub(a, b) ==
    LET lo == a[2] - b[2]
        borrow == IF lo < 0 THEN 1 ELSE 0
    IN  <<(a[1] - b[1] - borrow + HalfWord) % HalfWord, lo + borrow * HalfWord>>

\* a >= b, unsigned
U32Geq(a, b) == a[1] > b[1] \/ (a[1] = b[1] /\ a[2] >= b[2])

\* (uint32_t) n for an int n in -HalfWord..-1: 2^32 + n
U32FromNegative(n) == <<HalfWord - 1, HalfWord + n>>

\* the remainder and the quotient of a by the tick length, as integers
U32ModTick(a) == ((a[1] % sleepMilliseconds) * HalfWord + a[2]) % sleepMilliseconds
U32DivTick(a) ==
    (a[1] \div sleepMilliseconds) * HalfWord
    + (((a[1] % sleepMilliseconds) * HalfWord + a[2]) \div sleepMilliseconds)

\* variant: the comparison is strict
TimeoutReachedStrict(ct, to) == to # U32(0) /\ ct # to /\ U32Geq(ct, to)

\* timeout != 0 && currentTime >= timeout
TimeoutReached(ct, to) == to # U32(0) /\ U32Geq(ct, to)

\* variant: the check is made in every tick
MonitorEveryTick(mc, ct, last) == mc

\* monitorChanges && ((currentTime-lastModCheckTime) >= 1000), in uint32_t
MonitorDue(mc, ct, last) == mc /\ U32Geq(U32Sub(ct, last), U32(MonitorPeriod))

\* tolower(c)
ToLower(c) == IF c >= 65 /\ c <= 90 THEN c + 32 ELSE c

\* variant: '+' at the top of the ladder starts over
StepUpWraps(s) == IF s = 1 THEN 5 ELSE IF s = 5 THEN 10 ELSE IF s = 10 THEN 20 ELSE 1

\* case '+'
StepUp(s) == IF s = 1 THEN 5 ELSE IF s = 5 THEN 10 ELSE IF s = 10 THEN 20 ELSE s

\* case '-'
StepDown(s) == IF s = 20 THEN 10 ELSE IF s = 10 THEN 5 ELSE IF s = 5 THEN 1 ELSE s

\* variant: 'd' moves by twice the step
MoveXDoubled(c, st) == IF c = KeyA THEN -st ELSE IF c = KeyD THEN 2 * st ELSE 0

\* case 'a', case 'd': the change of xOffset for key c at step st
MoveX(c, st) == IF c = KeyA THEN -st ELSE IF c = KeyD THEN st ELSE 0

\* case 'w', case 's': the change of yOffset for key c at step st
MoveY(c, st) == IF c = KeyW THEN -st ELSE IF c = KeyS THEN st ELSE 0

\* what happened in the current tick: transactions submitted, the reload
\* check found the flag set, a decode was attempted, the content was
\* replaced, the position was changed, the file was checked for changes, a
\* key was processed
NewTick == [tx |-> 0, asked |-> FALSE, tried |-> FALSE, reloaded |-> FALSE,
            moved |-> FALSE, checked |-> FALSE, keyed |-> FALSE]

\* changeSourceAndUpdateImageLayer(&imageLayer), line 325: the new content is
\* committed by a transaction of its own (no update handle goes in or out)
changeSourceAndUpdateImageLayer(t) == [t EXCEPT !.tx = @ + 1]

\* variant: the move is applied without a transaction of its own
MoveWithoutTransaction(t) == t

\* lines 402-408: update_start, moveImageLayer, update_submit_sync
MoveTransaction(t) == [t EXCEPT !.tx = @ + 1]

\* imageLayer.image.width and .height of the image with content c
ImageWidth(c) == IF c = 2 THEN 33 ELSE 100
ImageHeight(c) == IF c = 2 THEN 21 ELSE 50

\* a / 2 on int32_t: the quotient is truncated toward zero
HalfOf(a) == IF a >= 0 THEN a \div 2 ELSE -((-a) \div 2)

\* lines 272-280: if (xOffsetSet == false) xOffset = (info.width -
\* imageLayer.image.width) / 2, and likewise for y
OffsetAtStart(set, given, displayDim, imageDim) ==
    IF set THEN given ELSE HalfOf(displayDim - imageDim)

\* variant: the decoded image is never handed to the compositor
ContentAfterLoadStale(loaded, sh, f) == sh

\* variant: the decoded data is displayed whatever loadPng returned
ContentAfterLoadUnchecked(loaded, sh, f) == f.content

\* lines 319-326: changeSourceAndUpdateImageLayer is called only in the else
\* branch of loadPng(...) == false; the content displayed after the attempt
ContentAfterLoad(loaded, sh, f) == IF loaded THEN f.content ELSE sh

\* the content replacement survives the outcome ok of its transaction: a
\* failure to submit after the loop has started is fatal
ChangeSourceSurvives(ok) == ok

\* variant: case 'w' does not set moveLayer
MoveLayerFlagNoW(c) == c \in {KeyA, KeyD, KeyS}

\* lines 343-365: the cases that set moveLayer = true
MoveLayerFlag(c) == c \in {KeyA, KeyD, KeyW, KeyS}

\* variant: the layer keeps the position it had
moveImageLayerStale(x, y, pos) == pos

\* moveImageLayer(&imageLayer, xOffset, yOffset, update), line 405: the
\* position the compositor holds once the update is submitted
moveImageLayer(x, y, pos) == <<x, y>>

\* variant: NDEBUG takes effect and assert(e) expands to nothing
AssertCompiledOut(e) == TRUE

\* assert(e), lines 403 and 408: <assert.h> is included at line 30, before
\* NDEBUG is defined at line 48, so the assertions are compiled in.  TRUE
\* iff the program goes on; otherwise abort() ends it.
AssertPasses(e) == e

\* variant: the keyboard is polled whatever -n says
PollAlways(inter) == TRUE

\* line 330: interactive && keyPressed(&c); keyPressed is called only if
\* interactive is true
PollKeyboard(inter) == inter

\* the compositor objects of the image layer: none before line 260
NoLayer == [resource |-> FALSE, element |-> FALSE]

\* createResourceImageLayer(&imageLayer, layer), line 260
createResourceImageLayer(il) == [il EXCEPT !.resource = TRUE]

\* addElementImageLayerOffset(&imageLayer, xOffset, yOffset, display, update)
\* in the update submitted at line 288
addElementImageLayerOffset(il) == [il EXCEPT !.element = TRUE]

\* destroyImageLayer(&imageLayer), line 433: releases element and resource
destroyImageLayer(il) == [il EXCEPT !.element = FALSE, !.resource = FALSE]

(***************************************************************************)
(* Exploration limits of the scenario.                                     *)
(***************************************************************************)
Horizon ==
    CASE scenario = "monitor" -> MaxMonTime
      [] scenario = "monitor2" -> MaxMon2Time
      [] scenario \in {"life", "graceful"} -> MaxLifeTime
      [] scenario = "timeout" -> MaxTimeoutTime
      [] scenario = "keys" -> sleepMilliseconds * MaxKeys
      [] OTHER -> MaxTime
KeyBudget ==
    CASE scenario = "keys" -> MaxKeys
      [] scenario = "mirror" -> MaxMirrorKeys
      [] OTHER -> MaxKeysMain

\* the wrap scenario starts at the last tick boundary 26 ms or more before
\* currentTime wraps: currentTime = 2^32 - 26 after (2^32 - 26) / 10 ticks
LateClock == U32FromNegative(-26)
\* the mirror scenario starts two ticks before the first file check is due
EarlyClock == U32(MonitorPeriod - 2 * sleepMilliseconds)
WithinHorizon ==
    CASE scenario = "wrap" -> iter < U32DivTick(LateClock) + MaxWrapTicks
      [] scenario = "mirror" -> iter < U32DivTick(EarlyClock) + MaxMirrorTicks
      [] OTHER -> ~U32Geq(currentTime, U32(Horizon))

\* outcomes of a compositor call that main asserts on (update_start,
\* update_submit_sync, display_close): TRUE when it succeeds.  Failures are
\* explored in the failure scenario and in the scenario from startup to exit.
TxOutcomes == IF scenario \in {"failure", "life"} THEN BOOLEAN ELSE {TRUE}

\* file changes are followed until the loop has been left
EnvAwake == pc \notin {"done", "exited", "aborted"}

\* the handlers installed at lines 215-233 run until the process has ended
ProcessAlive == pc \notin {"exited", "aborted"}

(***************************************************************************)
(* Initial states: the state at the first evaluation of while (run).  The  *)
(* image has been loaded (lines 194-212): from a path the file was         *)
(* readable and its modification time was recorded; from stdin lastFileMod *)
(* keeps its initial 0.                                                    *)
(***************************************************************************)
InitLoaded ==
    /\ imagePath \in {"-", "img.png"}
    /\ file \in FileStates
    /\ IF StartFromPath(imagePath)
       THEN /\ LoadPng(file)
            /\ shown = file.content
            /\ lastFileMod = file.mtime
       ELSE /\ file = Missing
            /\ shown = StdinImage
            /\ lastFileMod = 0
    /\ run = TRUE
    /\ reload = FALSE
    /\ step = 1
    /\ lastModCheckTime = U32(0)
    /\ image = shown
    /\ destroyed = 0
    /\ exitStatus = "running"
    /\ txFailed = FALSE
    /\ keysUsed = 0
    /\ stopSig = FALSE
    /\ stopPc = "none"
    /\ stopIter = 0
    /\ quitKey = FALSE
    /\ tick = NewTick
    /\ lateDecodes = 0
    /\ lateIter = 0
    /\ stale = 0
    /\ moved = <<0, 0>>
    /\ ladderLog = <<>>

\* the state at the first evaluation of while (run): resource and element
\* of the image layer have been created (lines 260-289)
\* -x and -y were given (lines 147-157) and the element has been added there
InitOffsetsGiven ==
    /\ xOffsetSet = TRUE
    /\ yOffsetSet = TRUE
    /\ info = DefaultMode
    /\ \E p \in InitOffsets :
          /\ xOffset = p[1]
          /\ yOffset = p[2]
          /\ start = p
          /\ layerPos = p

InitCommon ==
    /\ InitLoaded
    /\ InitOffsetsGiven
    /\ currentTime = U32(0)
    /\ iter = 0
    /\ pc = "top"
    /\ imageLayer = addElementImageLayerOffset(createResourceImageLayer(NoLayer))

\* reload scenario: signals, file changes, one key; no -t, no -m
Init ==
    /\ scenario = "reload"
    /\ timeout = U32(0)
    /\ interactive \in BOOLEAN
    /\ monitorChanges = FALSE
    /\ InitCommon

\* timeout scenario: -t and a path, with signals, file changes and one key
InitTimeout ==
    /\ scenario = "timeout"
    /\ timeout \in {U32(t) : t \in TimeoutsMs}
    /\ interactive \in BOOLEAN
    /\ monitorChanges = FALSE
    /\ InitCommon
    /\ imagePath # "-"

\* monitoring scenario: with and without -m, -n, no -t
InitMon ==
    /\ scenario = "monitor"
    /\ timeout = U32(0)
    /\ interactive = FALSE
    /\ monitorChanges \in BOOLEAN
    /\ InitCommon

\* keyboard scenario: interactive, no -t, no -m
InitKeys ==
    /\ scenario = "keys"
    /\ timeout = U32(0)
    /\ interactive = TRUE
    /\ monitorChanges = FALSE
    /\ InitCommon

\* failure scenario: as the reload scenario, interactive, and the
\* compositor can refuse a transaction
InitFail ==
    /\ scenario = "failure"
    /\ timeout = U32(0)
    /\ interactive = TRUE
    /\ monitorChanges = FALSE
    /\ InitCommon

\* two-check scenario: -m on or off, -n, no -t, a path
InitMon2 ==
    /\ scenario = "monitor2"
    /\ timeout = U32(0)
    /\ interactive = FALSE
    /\ monitorChanges \in BOOLEAN
    /\ InitCommon
    /\ imagePath # "-"

\* scenario from startup to exit: main is about to create the image
\* layer's resource (line 260); the signal handlers are installed
\* -x and -y are optional: an offset that was not given is 0 (lines 113-114)
\* until line 272.  No element exists yet: layerPos is a placeholder.
InitStartup ==
    /\ timeout \in {U32(t) : t \in LifeTimeoutsMs}
    /\ interactive \in BOOLEAN
    /\ monitorChanges = FALSE
    /\ InitLoaded
    /\ xOffsetSet \in BOOLEAN
    /\ yOffsetSet \in BOOLEAN
    /\ info \in DisplayModes
    /\ \E p \in InitOffsets :
          /\ xOffset = IF xOffsetSet THEN p[1] ELSE 0
          /\ yOffset = IF yOffsetSet THEN p[2] ELSE 0
    /\ start = <<xOffset, yOffset>>
    /\ layerPos = <<0, 0>>
    /\ currentTime = U32(0)
    /\ iter = 0
    /\ pc = "create"
    /\ imageLayer = NoLayer

\* any compositor call that main asserts on can fail
InitLife ==
    /\ scenario = "life"
    /\ InitStartup

\* the compositor calls succeed
InitGraceful ==
    /\ scenario = "graceful"
    /\ InitStartup

\* wrap scenario: the loop has run for 2^32 - 26 ms without a stop, with a
\* timeout that lies beyond
InitWrap ==
    /\ scenario = "wrap"
    /\ timeout \in {U32FromNegative(t) : t \in WrapTimeoutArgs}
    /\ interactive \in BOOLEAN
    /\ monitorChanges = FALSE
    /\ InitLoaded
    /\ InitOffsetsGiven
    /\ currentTime = LateClock
    /\ iter = U32DivTick(LateClock)
    /\ pc = "top"
    /\ imageLayer = addElementImageLayerOffset(createResourceImageLayer(NoLayer))

\* mirror scenario: interactive with -m and a path; the loop has run for 980
\* ms with no signal, key or change of the file, so the first file check is
\* due in the third tick; what is shown is the file's first content
InitMirror ==
    /\ scenario = "mirror"
    /\ timeout = U32(0)
    /\ interactive = TRUE
    /\ monitorChanges = TRUE
    /\ InitLoaded
    /\ InitOffsetsGiven
    /\ imagePath # "-"
    /\ file.content = 1
    /\ file.mtime = 1
    /\ currentTime = EarlyClock
    /\ iter = U32DivTick(EarlyClock)
    /\ pc = "top"
    /\ imageLayer = addElementImageLayerOffset(createResourceImageLayer(NoLayer))

(***************************************************************************)
(* Lines 260-289: the resource of the image layer is created, then its     *)
(* element is added in an update that is submitted at line 288.  A failed  *)
(* assert at line 265 or 289 ends the process; offsets that were not given *)
(* are computed in between (lines 272-280).                                *)
(***************************************************************************)
CreateResource ==
    /\ pc = "create"
    /\ pc' = "add"
    /\ imageLayer' = createResourceImageLayer(imageLayer)
    /\ UNCHANGED <<config, run, reload, xOffset, yOffset, step, currentTime,
                   lastModCheckTime, lastFileMod, layer, image, destroyed,
                   exitStatus, txFailed, file, keysUsed, hist>>

AddElement ==
    /\ pc = "add"
    /\ \E startOk, submitOk \in TxOutcomes :
          LET started == AssertPasses(startOk)
              submitted == started /\ AssertPasses(submitOk)
          IN  /\ xOffset' = IF started
                            THEN OffsetAtStart(xOffsetSet, xOffset, info.width,
                                               ImageWidth(image))
                            ELSE xOffset
              /\ yOffset' = IF started
                            THEN OffsetAtStart(yOffsetSet, yOffset, info.height,
                                               ImageHeight(image))
                            ELSE yOffset
              /\ txFailed' = (txFailed \/ ~startOk \/ ~submitOk)
              /\ IF submitted
                 THEN /\ pc' = "top"
                      /\ imageLayer' = addElementImageLayerOffset(imageLayer)
                      /\ layerPos' = <<xOffset', yOffset'>>
                      /\ start' = <<xOffset', yOffset'>>
                      /\ UNCHANGED exitStatus
                 ELSE /\ pc' = "aborted"
                      /\ exitStatus' = "abort"
                      /\ UNCHANGED <<imageLayer, layerPos, start>>
    /\ UNCHANGED <<config, run, reload, step, currentTime, lastModCheckTime,
                   lastFileMod, shown, image, destroyed, file, keysUsed,
                   iter, stopSig, stopPc, stopIter, quitKey, tick,
                   lateDecodes, lateIter, stale, moved, ladderLog>>

(***************************************************************************)
(* signalHandler, lines 61-76.  It can run between any two steps of main.  *)
(***************************************************************************)
signalHandler(sig) ==
    /\ ProcessAlive
    /\ IF sig = "SIGTSTP"
       THEN /\ reload' = TRUE
            /\ UNCHANGED <<run, stopSig, stopPc, stopIter>>
       ELSE /\ run' = FALSE
            /\ stopSig' = TRUE
            /\ stopPc' = IF stopSig THEN stopPc ELSE pc
            /\ stopIter' = IF stopSig THEN stopIter ELSE iter
            /\ UNCHANGED reload
    /\ UNCHANGED <<config, xOffset, yOffset, step, currentTime,
                   lastModCheckTime, lastFileMod, pc, layer, session, file,
                   keysUsed, iter, start, quitKey, tick, lateDecodes,
                   lateIter, stale, moved, ladderLog>>

(***************************************************************************)
(* Environment: the file at imagePath is replaced, damaged or removed.     *)
(***************************************************************************)
WriteFile(f) ==
    /\ EnvAwake
    /\ f # file
    /\ file' = f
    /\ stale' = IF stale > 0 THEN 1 ELSE 0
    /\ UNCHANGED <<config, prog, layer, session, keysUsed, iter, start,
                   stopSig, stopPc, stopIter, quitKey, tick, lateDecodes,
                   lateIter, moved, ladderLog>>

(***************************************************************************)
(* while (run), line 300.                                                  *)
(***************************************************************************)
LoopTest ==
    /\ pc = "top"
    /\ IF LoopRuns(run)
       THEN /\ WithinHorizon
            /\ pc' = "monitor"
            /\ iter' = iter + 1
            /\ tick' = NewTick
       ELSE /\ pc' = "done"
            /\ UNCHANGED <<iter, tick>>
    /\ UNCHANGED <<config, run, reload, xOffset, yOffset, step, currentTime,
                   lastModCheckTime, lastFileMod, layer, session, file,
                   keysUsed, start, stopSig, stopPc, stopIter, quitKey,
                   lateDecodes, lateIter, stale, moved, ladderLog>>

(***************************************************************************)
(* Lines 305-312: the optional check for changes of the file.              *)
(***************************************************************************)
MonitorStep ==
    /\ pc = "monitor"
    /\ pc' = "reload"
    /\ IF MonitorDue(monitorChanges, currentTime, lastModCheckTime)
       THEN /\ lastModCheckTime' = currentTime
            /\ \E modTime \in getFileModificationTime(file) :
                  /\ reload' = (reload \/ lastFileMod # modTime)
                  /\ lastFileMod' = modTime
            /\ tick' = [tick EXCEPT !.checked = TRUE]
       ELSE UNCHANGED <<lastModCheckTime, reload, lastFileMod, tick>>
    /\ UNCHANGED <<config, run, xOffset, yOffset, step, currentTime, layer,
                   session, file, keysUsed, iter, start, stopSig, stopPc,
                   stopIter, quitKey, lateDecodes, lateIter, stale, moved,
                   ladderLog>>

(***************************************************************************)
(* Lines 314-316: if (reload) { reload = false; if (strcmp(...) != 0) ...  *)
(***************************************************************************)
ReloadStep ==
    /\ pc = "reload"
    /\ IF reload
       THEN /\ reload' = ReloadAfterCheck(reload)
            /\ IF ReloadFromPath(imagePath)
               THEN /\ pc' = "load"
                    /\ tick' = [tick EXCEPT !.asked = TRUE, !.tried = TRUE]
                    /\ lateDecodes' = IF stopSig THEN lateDecodes + 1
                                      ELSE lateDecodes
                    /\ lateIter' = IF stopSig THEN iter ELSE lateIter
               ELSE /\ pc' = "key"
                    /\ tick' = [tick EXCEPT !.asked = TRUE]
                    /\ UNCHANGED <<lateDecodes, lateIter>>
            /\ UNCHANGED stale
       ELSE /\ pc' = "key"
            /\ stale' = IF stale > 0 /\ LoadPng(file) THEN 2 ELSE stale
            /\ UNCHANGED <<reload, tick, lateDecodes, lateIter>>
    /\ UNCHANGED <<config, run, xOffset, yOffset, step, currentTime,
                   lastModCheckTime, lastFileMod, layer, session, file,
                   keysUsed, iter, start, stopSig, stopPc, stopIter, quitKey,
                   moved, ladderLog>>

(***************************************************************************)
(* Lines 319-326: loadPng and its two outcomes.  On failure the loop       *)
(* pauses 200 ms (line 321), which currentTime does not count.             *)
(***************************************************************************)
LoadStep ==
    /\ pc = "load"
    /\ \E ok \in TxOutcomes :
          LET loaded == LoadPng(file)
              failed == loaded /\ ~ok
          IN  /\ reload' = IF loaded THEN FALSE ELSE reload
              /\ image' = IF loaded THEN file.content ELSE image
              /\ shown' = IF failed THEN shown
                          ELSE ContentAfterLoad(loaded, shown, file)
              /\ tick' = IF loaded /\ ok
                         THEN [changeSourceAndUpdateImageLayer(tick)
                                  EXCEPT !.reloaded = TRUE]
                         ELSE tick
              /\ stale' = IF loaded THEN 0 ELSE 1
              /\ txFailed' = (txFailed \/ failed)
              /\ IF failed /\ ~ChangeSourceSurvives(ok)
                 THEN pc' = "aborted" /\ exitStatus' = "abort"
                 ELSE pc' = "key" /\ UNCHANGED exitStatus
    /\ UNCHANGED <<config, run, xOffset, yOffset, step, currentTime,
                   lastModCheckTime, lastFileMod, layerPos, imageLayer,
                   destroyed, file, keysUsed, iter, start, stopSig, stopPc,
                   stopIter, quitKey, lateDecodes, lateIter, moved,
                   ladderLog>>

(***************************************************************************)
(* Lines 330-410: if (interactive && keyPressed(&c)) { ... }.  k is the    *)
(* key the poll returns, NoKey when none is waiting.                       *)
(***************************************************************************)
KeyStep(k) ==
    /\ pc = "key"
    /\ (PollKeyboard(interactive) /\ k # NoKey) => keysUsed < KeyBudget
    /\ IF PollKeyboard(interactive) /\ k # NoKey
       THEN \E ok \in TxOutcomes :
            LET c == ToLower(k)
                moveLayer == MoveLayerFlag(c)
                newStep == IF c = KeyPlus THEN StepUp(step)
                           ELSE IF c = KeyMinus THEN StepDown(step)
                           ELSE step
                failed == moveLayer /\ ~ok
            IN  /\ keysUsed' = keysUsed + 1
                /\ run' = IF c = KeyEsc THEN FALSE ELSE run
                /\ quitKey' = (quitKey \/ k = KeyEsc)
                /\ xOffset' = xOffset + MoveX(c, step)
                /\ yOffset' = yOffset + MoveY(c, step)
                /\ step' = newStep
                /\ layerPos' = IF moveLayer /\ ok
                               THEN moveImageLayer(xOffset', yOffset',
                                                   layerPos)
                               ELSE layerPos
                /\ tick' = [(IF moveLayer /\ ok THEN MoveTransaction(tick)
                             ELSE tick)
                               EXCEPT !.moved = moveLayer, !.keyed = TRUE]
                /\ txFailed' = (txFailed \/ failed)
                /\ IF failed /\ ~AssertPasses(ok)
                   THEN pc' = "aborted" /\ exitStatus' = "abort"
                   ELSE pc' = "sleep" /\ UNCHANGED exitStatus
                /\ moved' =
                     <<moved[1] + (IF k \in {KeyD, KeyD - 32} THEN step
                                   ELSE IF k \in {KeyA, KeyA - 32} THEN -step
                                   ELSE 0),
                       moved[2] + (IF k \in {KeyS, KeyS - 32} THEN step
                                   ELSE IF k \in {KeyW, KeyW - 32} THEN -step
                                   ELSE 0)>>
                /\ ladderLog' = IF k \in {KeyPlus, KeyMinus}
                                THEN Append(ladderLog,
                                            [key |-> k, before |-> step,
                                             after |-> step'])
                                ELSE ladderLog
       ELSE /\ pc' = "sleep"
            /\ UNCHANGED <<keysUsed, run, quitKey, xOffset, yOffset, step,
                           layerPos, tick, moved, ladderLog, txFailed,
                           exitStatus>>
    /\ UNCHANGED <<config, reload, currentTime, lastModCheckTime, lastFileMod,
                   shown, imageLayer, image, destroyed, file, iter, start,
                   stopSig, stopPc, stopIter, lateDecodes, lateIter,
                   stale>>

(***************************************************************************)
(* Lines 414-419: usleep, currentTime += 10, timeout check.                *)
(***************************************************************************)
SleepStep ==
    /\ pc = "sleep"
    /\ pc' = "top"
    /\ currentTime' = U32Add(currentTime, sleepMilliseconds)
    /\ run' = IF TimeoutReached(currentTime', timeout) THEN FALSE ELSE run
    /\ UNCHANGED <<config, reload, xOffset, yOffset, step, lastModCheckTime,
                   lastFileMod, layer, session, file, keysUsed, hist>>

(***************************************************************************)
(* Lines 424-442, after the loop: keyboardReset, destroyBackgroundLayer,   *)
(* destroyImageLayer, vc_dispmanx_display_close and its assert, return 0.  *)
(***************************************************************************)
\* variant: main returns without destroying the image layer
TeardownWithoutDestroy ==
    /\ pc = "done"
    /\ pc' = "exited"
    /\ exitStatus' = "0"
    /\ UNCHANGED <<config, run, reload, xOffset, yOffset, step, currentTime,
                   lastModCheckTime, lastFileMod, layer, imageLayer, image,
                   destroyed, txFailed, file, keysUsed, hist>>

Teardown ==
    /\ pc = "done"
    /\ imageLayer' = destroyImageLayer(imageLayer)
    /\ destroyed' = destroyed + 1
    /\ \E closeOk \in TxOutcomes :
          IF AssertPasses(closeOk)
          THEN pc' = "exited" /\ exitStatus' = "0"
          ELSE pc' = "aborted" /\ exitStatus' = "abort"
    /\ UNCHANGED <<config, run, reload, xOffset, yOffset, step, currentTime,
                   lastModCheckTime, lastFileMod, layer, image, txFailed,
                   file, keysUsed, hist>>

\* the steps of main() and of the signal handler; the file does not change
NextFixedFile ==
    \/ \E sig \in Signals : signalHandler(sig)
    \/ LoopTest
    \/ MonitorStep
    \/ ReloadStep
    \/ LoadStep
    \/ \E k \in Keys \cup {NoKey} : KeyStep(k)
    \/ SleepStep
    \/ Teardown

Next ==
    \/ \E f \in FileStates : WriteFile(f)
    \/ NextFixedFile

\* the steps of main() from line 260 to the return
MainSteps ==
    \/ CreateResource
    \/ AddElement
    \/ LoopTest
    \/ MonitorStep
    \/ ReloadStep
    \/ LoadStep
    \/ \E k \in Keys \cup {NoKey} : KeyStep(k)
    \/ SleepStep
    \/ Teardown

NextLife ==
    \/ \E sig \in Signals : signalHandler(sig)
    \/ MainSteps

\* the loop and the file, without signals
NextQuiet ==
    \/ \E f \in FileStates : WriteFile(f)
    \/ LoopTest
    \/ MonitorStep
    \/ ReloadStep
    \/ LoadStep
    \/ KeyStep(NoKey)
    \/ SleepStep

\* the loop, the file, the keyboard and the reload signal; the loop is left
\* by the quit key
NextReloading ==
    \/ signalHandler("SIGTSTP")
    \/ \E f \in FileStates : WriteFile(f)
    \/ LoopTest
    \/ MonitorStep
    \/ ReloadStep
    \/ LoadStep
    \/ \E k \in Keys \cup {NoKey} : KeyStep(k)
    \/ SleepStep
    \/ Teardown

Spec == Init /\ [][Next]_vars
SpecTimeout == InitTimeout /\ [][Next]_vars
SpecMon == InitMon /\ [][Next]_vars
SpecKeys == InitKeys /\ [][NextFixedFile]_vars
SpecFail == InitFail /\ [][Next]_vars
SpecMon2 == InitMon2 /\ [][NextQuiet]_vars
SpecWrap == InitWrap /\ [][Next]_vars
SpecMirror == InitMirror /\ [][NextReloading]_vars
SpecLife == InitLife /\ [][NextLife]_vars
\* main() is scheduled and its blocking calls return: it keeps taking steps
SpecGraceful == InitGraceful /\ [][NextLife]_vars /\ WF_vars(MainSteps)

(***************************************************************************)
(* C1.  With a timeout T > 0 and no stop signal or quit key, run is false  *)
(* exactly from the first tick whose accumulated time (10 ms per tick) is  *)
(* >= T: the loop makes ceil(T/10) iterations, 5 for T = 50.  With T = 0   *)
(* the timeout never clears run.                                           *)
(***************************************************************************)
TimeoutStopsAtFirstTick ==
    LET T == U32Val(timeout)
        now == U32Val(currentTime)
        ticksDone == IF pc \in {"top", "done", "exited"} THEN iter ELSE iter - 1
    IN  (~stopSig /\ ~quitKey) =>
           /\ now = sleepMilliseconds * ticksDone
           /\ T = 0 => run
           /\ T > 0 => (~run <=> now >= T)
           /\ (T > 0 /\ pc = "done") =>
                  /\ sleepMilliseconds * (iter - 1) < T
                  /\ T <= sleepMilliseconds * iter
           /\ (T = 50 /\ pc = "done") => iter = 5

\* T = 50, nothing else stops the loop: it has ended after 5 iterations
TimeoutFiftyEnded ==
    /\ timeout = U32(50)
    /\ ~stopSig /\ ~quitKey
    /\ pc = "done"
    /\ iter = 5
    /\ currentTime = U32(50)

(***************************************************************************)
(* C2, as stated.  At the end of every tick the number of update           *)
(* transactions issued in it is one if the content was replaced by a       *)
(* reload and/or the position was changed by a directional key, and zero   *)
(* otherwise: never two.                                                   *)
(***************************************************************************)
OneTransactionPerDirtyTick ==
    pc = "sleep" =>
       tick.tx = IF tick.reloaded \/ tick.moved THEN 1 ELSE 0

(***************************************************************************)
(* C2, amended.  The transactions of a tick are one per visible change:    *)
(* one for a successful reload (issued by the content replacement) plus    *)
(* one for a directional move; none when neither happened, two when both   *)
(* happened in the same tick.                                              *)
(***************************************************************************)
OneTransactionPerChange ==
    tick.tx = (IF tick.reloaded THEN 1 ELSE 0) + (IF tick.moved THEN 1 ELSE 0)

\* a tick in which a reload succeeded and a directional key moved the layer
ReloadAndMoveInOneTick ==
    /\ pc = "sleep"
    /\ tick.reloaded
    /\ tick.moved
    /\ tick.tx = 2

(***************************************************************************)
(* C3.  Reload-failure resilience: after a requested reload whose decode   *)
(* failed, once the file is readable again the next reload check retries,  *)
(* so the valid content gets displayed.  stale = 2 records a reload check  *)
(* that passed, after a failed decode with no successful one since, while  *)
(* the file was readable and without starting a decode; the claim fails    *)
(* when the content displayed then is not the content of the file.         *)
(***************************************************************************)
ReloadFailureResilience == stale = 2 => shown = file.content

(***************************************************************************)
(* C4.  After a failed decode attempt the reload request stays pending:    *)
(* outside the decode itself, reload is true from a failed attempt until   *)
(* the next successful decode.                                             *)
(***************************************************************************)
FailedReloadStaysPending ==
    (stale > 0 /\ pc # "load") => reload

(***************************************************************************)
(* C5, as stated.  Once a stop signal (SIGINT/SIGTERM) has set the stop    *)
(* flag, no decode attempt is started afterwards, wherever in the tick     *)
(* the signal was delivered.                                               *)
(***************************************************************************)
NoDecodeAfterStop == lateDecodes = 0

(***************************************************************************)
(* C5, amended.  The stop flag is read only by the loop test: a stop       *)
(* signal delivered before the loop test of a tick is honoured before any  *)
(* reload, also with a reload pending; a stop signal delivered after the   *)
(* loop test and before the reload check can be followed by one decode     *)
(* attempt, in that same tick, and by none in a later tick.                *)
(***************************************************************************)
StopHonoredAtLoopTest ==
    /\ lateDecodes <= 1
    /\ lateDecodes = 1 =>
          /\ stopPc \in {"monitor", "reload"}
          /\ lateIter = stopIter

\* a stop signal arrived at the loop test with a reload pending from a
\* path, and the loop has been left without a decode attempt
StopBeatsPendingReload ==
    /\ pc = "done"
    /\ stopPc = "top"
    /\ reload
    /\ imagePath # "-"
    /\ lateDecodes = 0

(***************************************************************************)
(* C6, as stated.  With the image read from standard input, neither a      *)
(* reload signal nor the file-change check ever sets the reload flag.      *)
(***************************************************************************)
StdinNeverSetsReload == imagePath = "-" => ~reload

(***************************************************************************)
(* C6, amended.  With the image read from standard input the reload flag   *)
(* can be set, by SIGTSTP and by the file-change check under -m, but       *)
(* every reload check of the loop leaves it cleared and goes on to the     *)
(* keyboard poll without a decode.                                         *)
(***************************************************************************)
StdinReloadFlagIsDiscarded ==
    [][(imagePath = "-" /\ pc = "reload" /\ pc' # "reload")
          => (pc' = "key" /\ ~reload')]_vars

\* stdin with -m: a file-change check has seen a modification time other
\* than the initial 0, the reload check of this tick found the flag set,
\* and the flag is clear again
StdinFlagSetAndCleared ==
    /\ imagePath = "-"
    /\ monitorChanges
    /\ lastFileMod # 0
    /\ tick.asked
    /\ ~reload
    /\ pc = "key"

(***************************************************************************)
(* C7.  With the image read from standard input, after the loop has        *)
(* started no decode is attempted and the content is never replaced: no    *)
(* decode is in progress, none was tried in the tick, no content           *)
(* transaction was issued and the compositor still shows the image read    *)
(* at startup, with and without -m and whatever signals arrive.            *)
(***************************************************************************)
StdinReadOnce ==
    imagePath = "-" =>
       /\ pc # "load"
       /\ ~tick.tried
       /\ ~tick.reloaded
       /\ tick.tx = 0
       /\ shown = StdinImage

\* stdin: a reload request was seen by the reload check while a readable
\* file exists at the path "-", and the tick went on without a decode
StdinReloadRequestIgnored ==
    /\ imagePath = "-"
    /\ tick.asked
    /\ LoadPng(file)
    /\ pc = "sleep"

(***************************************************************************)
(* C8.  A file-change check of a path source whose modification-time      *)
(* query fails (no file at the path) counts as "no change": it does not    *)
(* set the reload flag and does not alter the last-known modification      *)
(* time.                                                                   *)
(***************************************************************************)
FailedQueryIsNoChange ==
    [][(pc = "monitor" /\ lastModCheckTime' # lastModCheckTime
           /\ imagePath # "-" /\ ~file.exists)
          => (reload' = reload /\ lastFileMod' = lastFileMod)]_vars

(***************************************************************************)
(* C9.  step is always one of 1, 5, 10, 20; each '+' or '-' key moves it   *)
(* one rung up or down that ladder and is a no-op at the top and at the    *)
(* bottom; nothing else changes step; from step = 1 four '+' keys give     *)
(* 5, 10, 20, 20.                                                          *)
(***************************************************************************)
Ladder == <<1, 5, 10, 20>>
RungOf(s) == CHOOSE i \in DOMAIN Ladder : Ladder[i] = s
StepLadder ==
    /\ step \in {1, 5, 10, 20}
    /\ step = IF ladderLog = <<>> THEN 1
              ELSE ladderLog[Len(ladderLog)].after
    /\ \A i \in DOMAIN ladderLog :
          LET e == ladderLog[i]
              r == RungOf(e.before)
          IN  /\ e.before = IF i = 1 THEN 1 ELSE ladderLog[i - 1].after
              /\ e.after = IF e.key = KeyPlus
                           THEN Ladder[IF r < 4 THEN r + 1 ELSE 4]
                           ELSE Ladder[IF r > 1 THEN r - 1 ELSE 1]
    /\ [i \in DOMAIN ladderLog |-> ladderLog[i].key]
          = <<KeyPlus, KeyPlus, KeyPlus, KeyPlus>>
       => [i \in DOMAIN ladderLog |-> ladderLog[i].after] = <<5, 10, 20, 20>>

\* four '+' keys from step = 1 have been processed
FourPlusKeys ==
    /\ [i \in DOMAIN ladderLog |-> ladderLog[i].key]
          = <<KeyPlus, KeyPlus, KeyPlus, KeyPlus>>
    /\ step = 20

(***************************************************************************)
(* C10.  The position is the initial position plus the signed sum of the   *)
(* step in force at each directional key ('a' -step and 'd' +step on x,    *)
(* 'w' -step and 's' +step on y); a step change affects only later moves,  *)
(* and reloads and signals never change the position.                      *)
(***************************************************************************)
PositionIsSumOfMoves ==
    /\ xOffset = start[1] + moved[1]
    /\ yOffset = start[2] + moved[2]

\* 'w' at step 1, then '+', then 'd' at step 5, with a reload in between
MovedAtTwoSteps ==
    /\ moved = <<5, -1>>
    /\ keysUsed = 3
    /\ step = 5
    /\ tick.reloaded

(***************************************************************************)
(* C11.  As claimed, the timeout check comes first in the tick: when the   *)
(* elapsed time has reached the timeout, the tick in which it did so has   *)
(* performed no file-change check, reload attempt, key edit or             *)
(* transaction.                                                            *)
(***************************************************************************)
TimeoutDue ==
    timeout # U32(0) /\ U32Val(currentTime) >= U32Val(timeout)

TimeoutCheckedFirst ==
    (TimeoutDue /\ pc = "top") => tick = NewTick

(***************************************************************************)
(* C11, as the code orders the tick: loop test, file check, reload, key    *)
(* and its transaction, sleep, and the timeout check last (line 417).      *)
(* Whatever a tick has done was done before its timeout check; once the    *)
(* elapsed time has reached the timeout, run is false and main is at the   *)
(* loop test or past the loop, so nothing of a further tick is performed.  *)
(***************************************************************************)
TimeoutCheckedLast ==
    TimeoutDue => (~run /\ pc \in {"top", "done", "exited"})

\* the tick that reached the timeout reloaded the image and moved the layer
TimeoutTickDidWork ==
    /\ TimeoutDue
    /\ pc = "done"
    /\ ~stopSig
    /\ ~quitKey
    /\ tick.reloaded
    /\ tick.moved

(***************************************************************************)
(* C12.  Graceful stop.  Once run is false (SIGINT, SIGTERM, the quit key  *)
(* or the timeout cleared it) main eventually returns; destroyImageLayer   *)
(* is called exactly once, after the loop, and it has been called exactly  *)
(* when main has returned; no transaction is issued and nothing the        *)
(* compositor shows changes in the step that destroys the layer or after   *)
(* it; the exit status is 0.                                               *)
(***************************************************************************)
GracefulStop ==
    /\ [](~run => <>(pc = "exited"))
    /\ [](/\ destroyed = (IF pc = "exited" THEN 1 ELSE 0)
          /\ pc = "exited" => (exitStatus = "0" /\ imageLayer = NoLayer)
          /\ pc # "exited" => exitStatus = "running")
    /\ [][destroyed' > 0 => (tick' = tick /\ layer' = layer)]_vars

\* main has returned after a stop signal that arrived in a tick with a move
StoppedAndDestroyed ==
    /\ pc = "exited"
    /\ stopSig
    /\ destroyed = 1
    /\ exitStatus = "0"
    /\ tick.moved

(***************************************************************************)
(* C13.  A decode attempt on a file that cannot be opened or decoded has   *)
(* no visible effect: the step issues no transaction, the displayed        *)
(* content stays the last successfully loaded image, position and step     *)
(* are unchanged, run is not changed, and main goes on to the key          *)
(* handling of the same tick.                                              *)
(***************************************************************************)
FailedDecodeHasNoEffect ==
    [][(pc = "load" /\ pc' # "load" /\ ~(file.exists /\ file.valid))
          => /\ pc' = "key"
             /\ tick'.tx = tick.tx
             /\ shown' = shown
             /\ layerPos' = layerPos
             /\ <<xOffset', yOffset', step'>> = <<xOffset, yOffset, step>>
             /\ run' = run
             /\ exitStatus' = "running"]_vars

\* a decode has failed on a damaged file that differs from what is shown,
\* and the loop has gone on to a later tick
FailedDecodeSurvived ==
    /\ stale = 1
    /\ tick.tx = 0
    /\ ~tick.tried
    /\ pc = "key"
    /\ run
    /\ file.exists
    /\ ~file.valid
    /\ shown # file.content

(***************************************************************************)
(* C14.  A transaction of the loop that cannot be started or submitted is  *)
(* fatal: in every state in which one has failed the process has been      *)
(* aborted by the failed assert, and main takes no step from such a state  *)
(* (no further tick, key edit, reload or transaction).                     *)
(***************************************************************************)
TransactionFailureIsFatal ==
    /\ [](txFailed => (pc = "aborted" /\ exitStatus = "abort"))
    /\ [][~txFailed]_vars

\* the transaction of a move has failed: the process was aborted with an
\* offset the compositor does not show
AbortedOnFailedMove ==
    /\ pc = "aborted"
    /\ txFailed
    /\ tick.moved
    /\ layerPos # <<xOffset, yOffset>>

(***************************************************************************)
(* C15.  As claimed (I1 in every state from startup to exit): the          *)
(* resource and the element of the image layer are both valid or both      *)
(* absent.                                                                 *)
(***************************************************************************)
ResourceAndElementTogether ==
    imageLayer.resource <=> imageLayer.element

(***************************************************************************)
(* C15, as the code has it: the resource is created first (line 260) and   *)
(* exists alone until the element has been added by the update submitted   *)
(* at line 288; from the first loop test to the end of the loop both are   *)
(* valid; after destroyImageLayer both are absent.                         *)
(***************************************************************************)
ResourceBeforeElement ==
    /\ pc = "create" => imageLayer = NoLayer
    /\ pc = "add" => (imageLayer.resource /\ ~imageLayer.element)
    /\ pc \in {"top", "monitor", "reload", "load", "key", "sleep", "done"}
          => (imageLayer.resource /\ imageLayer.element)
    /\ pc = "exited" => imageLayer = NoLayer

\* the layer has been created, shown for a tick with a reload, and destroyed
LayerLifeCompleted ==
    /\ pc = "exited"
    /\ imageLayer = NoLayer
    /\ iter > 0
    /\ tick.reloaded

(***************************************************************************)
(* C16.  Invariant I2: whenever main is between two steps of the loop, and *)
(* so at every loop test, the position the compositor holds for the layer  *)
(* is (xOffset, yOffset) and the content it shows is the last              *)
(* successfully decoded image: every change of either is committed in the  *)
(* step that makes it, before the next flag read, file check or key poll.  *)
(***************************************************************************)
MirroredState ==
    /\ layerPos = <<xOffset, yOffset>>
    /\ shown = image

\* at the loop test after a tick in which the file check found the file
\* rewritten, the reload replaced content 1 by content 2 and a key moved the
\* layer by a step of 5; a new reload signal is pending
MirroredAfterCheckReloadAndMove ==
    /\ pc = "top"
    /\ tick.checked
    /\ tick.reloaded
    /\ tick.moved
    /\ shown = 2
    /\ file.content = 2
    /\ step = 5
    /\ layerPos # start
    /\ reload

(***************************************************************************)
(* C17.  The file is checked exactly in the monitor step of a tick with    *)
(* -m on and at least 1000 ms of loop time since the previous check (since *)
(* loop start for the first).  Only a check writes lastFileMod, so the     *)
(* record does not depend on the decode that follows.  A check that finds  *)
(* the file records its modification time and sets reload iff that time    *)
(* differs from the recorded one: a check that observes the recorded time  *)
(* again leaves reload as it is.  Without signals nothing else sets        *)
(* reload.                                                                 *)
(***************************************************************************)
FileCheckContract ==
    [][LET check == lastModCheckTime' # lastModCheckTime
           due == /\ monitorChanges
                  /\ U32Val(currentTime) - U32Val(lastModCheckTime)
                        >= MonitorPeriod
       IN  /\ check <=> (pc = "monitor" /\ pc' = "reload" /\ due)
           /\ check => lastModCheckTime' = currentTime
           /\ (lastFileMod' # lastFileMod \/ (reload' /\ ~reload)) => check
           /\ (check /\ file.exists)
                 => /\ lastFileMod' = file.mtime
                    /\ reload' = (reload \/ lastFileMod # file.mtime)
           /\ (check /\ file.exists /\ file.mtime = lastFileMod)
                 => reload' = reload]_vars

\* the first check saw a change and the decode failed; the second check, at
\* 2000 ms, has just seen the same modification time and left reload clear
SecondCheckSawNoChange ==
    /\ pc = "reload"
    /\ currentTime = U32(2 * MonitorPeriod)
    /\ lastModCheckTime = currentTime
    /\ file.exists
    /\ lastFileMod = file.mtime
    /\ stale >= 1
    /\ ~reload

(***************************************************************************)
(* C18.  No reload signal is lost: when a decode from a path ends while    *)
(* reload is set, which only a SIGTSTP delivered during that decode can    *)
(* have done, reload is still set afterwards, so that the next tick makes  *)
(* one more decode attempt.                                                *)
(***************************************************************************)
ReloadSignalDuringDecodeKept ==
    [][(pc = "load" /\ pc' # "load" /\ imagePath # "-" /\ reload)
          => reload']_vars

(***************************************************************************)
(* C19.  The timeout under wrap-around of the 32-bit counter: for every    *)
(* timeout T > 0, without a stop signal or quit key, the loop runs for     *)
(* exactly ceil(T / 10) ticks: at each loop test run is true iff fewer     *)
(* ticks than that have been completed.                                    *)
(***************************************************************************)
TicksToTimeout ==
    U32DivTick(timeout) + (IF U32ModTick(timeout) = 0 THEN 0 ELSE 1)

TimeoutSurvivesWrap ==
    (timeout # U32(0) /\ pc = "top" /\ ~stopSig /\ ~quitKey)
       => (run <=> iter < TicksToTimeout)

(***************************************************************************)
(* C20.  With -n the keyboard is never polled: whatever keys are pressed,  *)
(* no key is consumed, position and step keep their initial values, no     *)
(* move is made and the quit key does not stop the session; run is only    *)
(* cleared by SIGINT/SIGTERM or by the timeout.  (Reloads still work: the  *)
(* witness.)                                                               *)
(***************************************************************************)
NonInteractiveIgnoresKeys ==
    ~interactive =>
        /\ keysUsed = 0
        /\ <<xOffset, yOffset>> = start
        /\ layerPos = start
        /\ step = 1
        /\ moved = <<0, 0>>
        /\ ~tick.moved
        /\ ~tick.keyed
        /\ ~quitKey
        /\ ~run => (stopSig \/ TimeoutDue)

\* with -n, a reload requested by SIGTSTP has displayed the rewritten file
\* in this tick, and the loop is still running
NonInteractiveReloaded ==
    /\ ~interactive
    /\ tick.reloaded
    /\ lastFileMod # file.mtime
    /\ shown = file.content
    /\ run
    /\ pc = "sleep"

=============================================================================
